---------------------------- MODULE Spec2Model ----------------------------
(***************************************************************************)
(* Model of src/src/arm_control.cpp: the ZeroMQ command receiver thread,  *)
(* the ZeroMQ state sender thread, the real-time control callbacks         *)
(* (callback_cart, callback_joint) and the start/stop sequence of main.    *)
(*                                                                         *)
(* Units.  Doubles are modelled in fixed point:                            *)
(*   normalized velocities      in 1/1000 (1000 is the unit velocity)      *)
(*   positions                  in nanometres                              *)
(*   rotation vectors, angles   in nanoradians                             *)
(*   steady_clock time points   in clock ticks, TicksPerMs ticks per ms    *)
(* so that  velocity * max_linear_velocity(mm/s) * dt(ms)  is nanometres   *)
(* and  velocity * max_angular_velocity(mrad/s) * dt(ms)  is nanoradians.  *)
(*                                                                         *)
(* A 4x4 pose held by the callback is the record [m, rot]: m is the        *)
(* row-major 16-array, rot the word of incremental rotation vectors whose  *)
(* Rodrigues matrices have been multiplied onto the rotation block of m    *)
(* from the left, most recent first (the empty word is the identity).      *)
(***************************************************************************)
EXTENDS Integers, Sequences, FiniteSets, TLC

----------------------------------------------------------------------------
(* Bounds of the exploration *)

\* clock resolution: steady_clock ticks per millisecond
TicksPerMs == 2
\* how many whole timeouts the readings of the clock span
MaxCoarse == 1
\* how many messages of a recognized shape arrive
MaxMsgs == 2
\* how many times the real-time scheduler invokes the callback
MaxTicks == 2
\* how many ticks in a row are integrated when the integration is taken alone
MaxSteps == 3

----------------------------------------------------------------------------
(* Program constants *)

\* const double max_linear_velocity = 0.08 (m/s), here in mm/s
max_linear_velocity == 80
\* const double max_angular_velocity = 0.16 (rad/s), here in mrad/s
max_angular_velocity == 160
\* double dt = 0.001 (s), here in ms
dt == 1
\* const std::chrono::milliseconds timeout_duration(100)
timeout_duration == 100
\* if (angle > 1e-6): the threshold in nanoradians
AngleEps == 1000
\* std::array<double, 7> joint_position
NumJoints == 7

useDesiredPose == TRUE
useTCPMove == FALSE

CmdTypes == {"xyzrpy_vel", "pose_mat", "joint_pose"}

\* tcp_frame: the tool centre point is 0.2 m in front of the flange
tcp_frame ==
    << 1, 0, 0, 0,
       0, 1, 0, 0,
       0, 0, 1, 200000000,
       0, 0, 0, 1 >>

\* initial_joint_positions {0, pi/6, 0, pi/3, 0, pi/2, 0}, here in degrees
initial_joint_positions == << 0, 30, 0, 60, 0, 90, 0 >>

----------------------------------------------------------------------------
(* Arithmetic helpers *)

Abs(x) == IF x < 0 THEN -x ELSE x

Zero3 == << 0, 0, 0 >>

\* the last two elements of a sequence
LastTwo(q) == IF Len(q) > 2 THEN SubSeq(q, Len(q) - 1, Len(q)) ELSE q

\* std::chrono::duration_cast<milliseconds>: truncation toward zero
DurationCastMs(ticks) ==
    IF ticks >= 0 THEN ticks \div TicksPerMs ELSE -((-ticks) \div TicksPerMs)

\* cos and sin of k quarter turns
CosQ(k) == CASE k % 4 = 0 -> 1 [] k % 4 = 1 -> 0 [] k % 4 = 2 -> -1 [] OTHER -> 0
SinQ(k) == CASE k % 4 = 0 -> 0 [] k % 4 = 1 -> 1 [] k % 4 = 2 -> 0 [] OTHER -> -1

\* rokae::Utils::postureToTransArray: {x, y, z, rx, ry, rz} to a row-major
\* 4x4 transform, R = Rz * Ry * Rx (angles here in quarter turns)
postureToTransArray(p) ==
    LET ca == CosQ(p[4])  sa == SinQ(p[4])
        cb == CosQ(p[5])  sb == SinQ(p[5])
        cc == CosQ(p[6])  sc == SinQ(p[6])
    IN << cc * cb, cc * sb * sa - sc * ca, cc * sb * ca + sc * sa, p[1],
          sc * cb, sc * sb * sa + cc * ca, sc * sb * ca - cc * sa, p[2],
          -sb,     cb * sa,                cb * ca,                p[3],
          0,       0,                      0,                      1 >>

\* the triple loop of main computing tcp_in_base = a * b
MatMul4(a, b) ==
    [ n \in 1..16 |->
        LET i == (n - 1) \div 4
            j == (n - 1) % 4
        IN  a[i * 4 + 1] * b[j + 1] + a[i * 4 + 2] * b[4 + j + 1]
          + a[i * 4 + 3] * b[8 + j + 1] + a[i * 4 + 4] * b[12 + j + 1] ]

\* sqrt(x*x + y*y + z*z) > 1e-6, evaluated without squaring large components
AngleExceedsEps(v) ==
    \/ \E i \in 1..3 : Abs(v[i]) > AngleEps
    \/ v[1] * v[1] + v[2] * v[2] + v[3] * v[3] > AngleEps * AngleEps

\* delta_rotation_matrix: the identity, or the Rodrigues matrix of v
DeltaRotation(v) == IF AngleExceedsEps(v) THEN << v >> ELSE << >>

\* a fault of lines 449-456: the product is taken in the other order
RotationProduct_Right(delta, current) == current \o delta

\* new_rotation_matrix = delta_rotation_matrix * current_rotation_matrix
RotationProduct(delta, current) == delta \o current

----------------------------------------------------------------------------
(* Inputs *)

\* what robot.posture(flangeInBase) and robot.jointPos report at the k-th query
\* (k = 0 is the query of main): the flange is turned a quarter about x and
\* drifts along y, the last joint drifts
RobotState(k) ==
    [ posture |-> << 500000000, 100 * k, 400000000, 1, 0, 0 >>,
      joint   |-> [ initial_joint_positions EXCEPT ![NumJoints] = k ] ]

\* the normalized velocity of one unit along axis i
UnitAxis(i) == [ j \in 1..3 |-> IF j = i THEN 1000 ELSE 0 ]

\* the velocities a tick can find in the command when the integration is taken
\* alone: a unit linear velocity along each axis and one that is not a unit;
\* angular velocities that give a rotation of zero, of 0.96e-6 rad (not above
\* the threshold of line 427) and of 1.6e-4 rad about two different axes
TickLinear == { UnitAxis(1), UnitAxis(2), UnitAxis(3), << 0, -500, 0 >> }
TickAngular == { Zero3, << 0, 0, 6 >>, << 0, 0, 1000 >>, << 0, 1000, 0 >> }

\* the postures of the flange the integration can start from
StartPostures ==
    { RobotState(0).posture,
      << 500000000, 0, 400000000, 0, 1, 0 >>,
      << 500000000, 0, 400000000, 0, 0, 0 >> }

\* inbound JSON messages, as the object json::parse returns
VelocityMsgs ==
    { [ linear_velocity |-> << 1000, 0, 0 >>, angular_velocity |-> Zero3 ],
      [ linear_velocity |-> << 0, -500, 0 >>, angular_velocity |-> << 0, 0, 1000 >> ] }

PoseMsgs ==
    { [ pose_matrix |-> postureToTransArray(<< 510000000, 0, 400000000, 0, 0, 0 >>) ],
      [ pose_matrix |-> postureToTransArray(<< 500000000, 7, 400000000, 0, 1, 0 >>) ] }

JointMsgs ==
    { [ joint_position |-> << 1, 31, 1, 61, 1, 91, 1 >> ] }

OtherMsgs ==
    { [ stop |-> 1 ],
      [ linear_velocity |-> << 1000, 0, 0 >> ] }

\* the messages that arrive: every message of the shape the mode is made for,
\* messages of other shapes, and the messages of no known shape
OneOf(S) == { CHOOSE m \in S : TRUE }

Messages(type) ==
    CASE type = "xyzrpy_vel" -> VelocityMsgs \cup OneOf(PoseMsgs) \cup JointMsgs \cup OtherMsgs
      [] type = "pose_mat"   -> PoseMsgs \cup OneOf(VelocityMsgs) \cup JointMsgs \cup OtherMsgs
      [] type = "joint_pose" -> JointMsgs \cup OneOf(VelocityMsgs) \cup OtherMsgs

NoMsg == [ none |-> 0 ]

contains(m, key) == key \in DOMAIN m

\* payloads that cannot be turned into a command: one that is not JSON, and
\* messages whose recognized key holds an array that is too short
MalformedMsgs ==
    { [ not_json |-> 1 ],
      [ linear_velocity |-> << 1000, 0 >>, angular_velocity |-> Zero3 ],
      [ pose_matrix |-> << 1, 0, 0, 0 >> ],
      [ joint_position |-> << 1, 31, 1 >> ] }

\* line 154: json::parse throws json::parse_error on a payload that is not JSON
ParseThrows(m) == contains(m, "not_json")

\* lines 157-158, 168, 176: get<std::array<double, N>>() reads the elements
\* 0..N-1 with at() and throws on an array that has fewer
GetThrows(m) ==
    \/ /\ contains(m, "linear_velocity") /\ contains(m, "angular_velocity")
       /\ ( Len(m.linear_velocity) < 3 \/ Len(m.angular_velocity) < 3 )
    \/ /\ ~( contains(m, "linear_velocity") /\ contains(m, "angular_velocity") )
       /\ contains(m, "pose_matrix")
       /\ Len(m.pose_matrix) < 16
    \/ /\ ~( contains(m, "linear_velocity") /\ contains(m, "angular_velocity") )
       /\ ~contains(m, "pose_matrix")
       /\ contains(m, "joint_position")
       /\ Len(m.joint_position) < NumJoints

\* the message makes zmq_receiver throw
Throws(m) == ParseThrows(m) \/ GetThrows(m)

\* the if / else if chain of zmq_receiver
MsgShape(m) ==
    IF contains(m, "linear_velocity") /\ contains(m, "angular_velocity")
    THEN "velocity"
    ELSE IF contains(m, "pose_matrix") THEN "pose"
    ELSE IF contains(m, "joint_position") THEN "joint"
    ELSE "unknown"

----------------------------------------------------------------------------
(* State *)

VARIABLES
    cmdType,                \* const CmdType cmdType, fixed when the program is built
    now,                    \* std::chrono::steady_clock, as last read
    running,                \* std::atomic<bool> running
    command_mutex,          \* "free" or the thread that holds it
    linear_velocity_cmd,
    angular_velocity_cmd,
    pose_matrix_cmd,
    joint_position_cmd,
    command_supressed,
    last_message_time,
    pose_mutex,             \* "free" or the thread that holds it
    current_posture,
    current_joint,
    target_pose_matrix,     \* what callback_cart returns
    target_joint_pose,      \* what callback_joint returns
    rpc,                    \* zmq_receiver: position in its loop
    message,                \* zmq_receiver: the parsed message (msg_json)
    current_time,           \* zmq_receiver: current_time
    spc,                    \* zmq_sender: position in its loop
    copy,                   \* zmq_sender: posture_copy or joint_copy
    cpc,                    \* callback: position in the current invocation
    callback_start,         \* callback_cart: callback_start
    current_posture_local,  \* callback: current_posture_local
    joint_pose_local,       \* callback: joint_pose_local
    linear_velocity,        \* callback_cart: linear_velocity, copied at line 362
    angular_velocity,       \* callback_cart: angular_velocity, copied at line 363
    ticks,                  \* number of callback invocations so far
    msgs,                   \* number of recognized messages received so far
    mpc,                    \* main: position
    loop_on,                \* rtCon: the control loop runs (startLoop .. stopLoop)
    power,                  \* robot power state
    ec,                     \* std::error_code ec: the last call reported an error
    \* history of the run, read by the properties only
    hist_vel_time,          \* current_time of the last completed velocity write
    hist_vel_writes,        \* the velocity writes completed since the callback's
                            \* last read, oldest first (the last two of them)
    hist_read,              \* hist_vel_writes as it was when the running callback
                            \* read the command
    hist_pose,              \* matrix of the last completed pose_matrix write
    pubs_after_stop,        \* messages published while running = false
    \* observations of the run, recorded only by the actions that observe
    published,              \* the last record zmq_sender has sent
    hist_fallback           \* a tick has applied the timeout of line 354

cmdVars == << linear_velocity_cmd, angular_velocity_cmd, pose_matrix_cmd,
              joint_position_cmd, command_supressed, last_message_time >>
poseVars == << current_posture, current_joint >>
targetVars == << target_pose_matrix, target_joint_pose >>
receiverVars == << rpc, message, current_time, msgs >>
senderVars == << spc, copy, pubs_after_stop >>
callbackVars == << cpc, callback_start, current_posture_local, joint_pose_local,
                   linear_velocity, angular_velocity, ticks >>
mainVars == << mpc, loop_on, power, running, ec >>
histCmdVars == << hist_vel_time, hist_vel_writes, hist_read, hist_pose >>
obsVars == << published, hist_fallback >>

vars == << cmdType, now, command_mutex, pose_mutex, cmdVars, poseVars, targetVars,
           receiverVars, senderVars, callbackVars, mainVars, histCmdVars, obsVars >>

\* the timeout in clock ticks
Period == timeout_duration * TicksPerMs

\* main at line 44, before the configuration of the robot, with the shared
\* state of lines 112-129 and its seeds of lines 245-254
Init ==
    /\ cmdType \in CmdTypes
    /\ now = 0
    /\ running = TRUE
    /\ command_mutex = "free"
    /\ linear_velocity_cmd = Zero3
    /\ angular_velocity_cmd = Zero3
    /\ command_supressed = FALSE
    /\ last_message_time = 0
    /\ pose_mutex = "free"
    /\ current_posture = RobotState(0).posture
    /\ current_joint = RobotState(0).joint
    /\ target_pose_matrix = [ m |-> postureToTransArray(current_posture), rot |-> << >> ]
    /\ pose_matrix_cmd = target_pose_matrix.m
    /\ target_joint_pose = current_joint
    /\ joint_position_cmd = target_joint_pose
    /\ hist_pose = pose_matrix_cmd
    /\ rpc = "off"
    /\ message = NoMsg
    /\ current_time = 0
    /\ spc = "off"
    /\ copy = << >>
    /\ cpc = "idle"
    /\ callback_start = 0
    /\ current_posture_local = << >>
    /\ joint_pose_local = << >>
    /\ linear_velocity = Zero3
    /\ angular_velocity = Zero3
    /\ ticks = 0
    /\ msgs = 0
    /\ mpc = "config"
    /\ loop_on = FALSE
    /\ power = TRUE
    /\ ec = FALSE
    /\ hist_vel_time = 0
    /\ hist_vel_writes = << >>
    /\ hist_read = << >>
    /\ pubs_after_stop = 0
    /\ published = NoMsg
    /\ hist_fallback = FALSE

----------------------------------------------------------------------------
(* The clock *)

\* the time points at which steady_clock is read: whole timeouts after the
\* start, and the last of them plus one tick and plus one millisecond
ClockValues ==
    { c * Period : c \in 0..MaxCoarse }
    \cup { MaxCoarse * Period + 1, MaxCoarse * Period + TicksPerMs }

\* std::chrono::steady_clock::now(): never earlier than the last time read
SteadyClockNow(last) == { t \in ClockValues : t >= last }

----------------------------------------------------------------------------
(* zmq_receiver: the thread that receives the commands *)

\* while (running)
ReceiverLoop ==
    /\ rpc \in {"while", "discarded"}
    /\ rpc' = IF running THEN "recv" ELSE "done"
    /\ UNCHANGED << cmdType, obsVars, now, command_mutex, pose_mutex, cmdVars, poseVars,
                    targetVars, message, current_time, msgs, senderVars, callbackVars,
                    mainVars, histCmdVars >>

\* subscriber.recv(message, recv_flags::none) blocks until a message arrives;
\* then current_time = now() and the message is parsed.  A message of one of
\* the three shapes goes on to the lock_guard of its branch.
ReceiverRecv(m) ==
    /\ rpc = "recv"
    /\ ~Throws(m)
    /\ MsgShape(m) # "unknown"
    /\ msgs < MaxMsgs
    /\ msgs' = msgs + 1
    /\ message' = m
    /\ now' \in SteadyClockNow(now)
    /\ current_time' = now'
    /\ rpc' = "lock"
    /\ UNCHANGED << cmdType, obsVars, command_mutex, pose_mutex, cmdVars, poseVars,
                    targetVars, senderVars, callbackVars, mainVars, histCmdVars >>

\* a fault of the final else: the dropped message refreshes last_message_time
ReceiverDiscard_Refreshes(m) ==
    /\ rpc = "recv"
    /\ MsgShape(m) = "unknown"
    /\ now' \in SteadyClockNow(now)
    /\ last_message_time' = now'
    /\ rpc' = "discarded"
    /\ UNCHANGED << cmdType, obsVars, command_mutex, pose_mutex, linear_velocity_cmd,
                    angular_velocity_cmd, pose_matrix_cmd, joint_position_cmd,
                    command_supressed, poseVars, targetVars, message, current_time,
                    msgs, senderVars, callbackVars, mainVars, histCmdVars >>

\* the final else: the message is logged to std::cerr and dropped
ReceiverDiscard(m) ==
    /\ rpc = "recv"
    /\ ~Throws(m)
    /\ MsgShape(m) = "unknown"
    /\ rpc' = "discarded"
    /\ UNCHANGED << cmdType, obsVars, now, command_mutex, pose_mutex, cmdVars, poseVars,
                    targetVars, message, current_time, msgs, senderVars, callbackVars,
                    mainVars, histCmdVars >>

\* lines 154-176 on a message that throws: nothing in the lambda of
\* zmq_receiver catches the exception, so it leaves the thread function and
\* std::terminate ends the process, with all its threads, where they are
ReceiverThrow(m) ==
    /\ rpc = "recv"
    /\ Throws(m)
    /\ message' = m
    /\ rpc' = "terminate"
    /\ spc' = "terminate"
    /\ cpc' = "terminate"
    /\ mpc' = "terminate"
    /\ UNCHANGED << cmdType, obsVars, now, command_mutex, pose_mutex, cmdVars, poseVars,
                    targetVars, current_time, msgs, copy, pubs_after_stop,
                    callback_start, current_posture_local, joint_pose_local,
                    linear_velocity, angular_velocity, ticks, loop_on, power,
                    running, ec, histCmdVars >>

\* std::lock_guard<std::mutex> lock(command_mutex)
ReceiverLock ==
    /\ rpc = "lock"
    /\ command_mutex = "free"
    /\ command_mutex' = "receiver"
    /\ rpc' = "cs"
    /\ UNCHANGED << cmdType, obsVars, now, pose_mutex, cmdVars, poseVars, targetVars, message,
                    current_time, msgs, senderVars, callbackVars, mainVars, histCmdVars >>

\* the value each branch assigns to command_supressed (lines 163, 172, 181)
SuppressedByShape(shape) ==
    CASE shape = "velocity" -> FALSE
      [] shape = "pose"     -> FALSE
      [] shape = "joint"    -> TRUE

\* a fault of the velocity branch: angular_velocity_cmd is not assigned
ReceiverWriteVelocity_LinearOnly ==
    /\ rpc = "cs"
    /\ MsgShape(message) = "velocity"
    /\ linear_velocity_cmd' = message.linear_velocity
    /\ command_supressed' = FALSE
    /\ last_message_time' = current_time
    /\ command_mutex' = "free"
    /\ rpc' = "while"
    /\ message' = NoMsg
    /\ hist_vel_time' = current_time
    /\ hist_vel_writes' =
          LastTwo(Append(hist_vel_writes, [ lin |-> message.linear_velocity,
                                            ang |-> message.angular_velocity ]))
    /\ current_time' = 0
    /\ UNCHANGED << cmdType, obsVars, now, pose_mutex, angular_velocity_cmd, pose_matrix_cmd,
                    joint_position_cmd, poseVars, targetVars, msgs, senderVars,
                    callbackVars, mainVars, hist_read, hist_pose >>

\* the velocity branch, lines 161-165, to the end of the lock's scope
ReceiverWriteVelocity ==
    /\ rpc = "cs"
    /\ MsgShape(message) = "velocity"
    /\ linear_velocity_cmd' = message.linear_velocity
    /\ angular_velocity_cmd' = message.angular_velocity
    /\ command_supressed' = SuppressedByShape("velocity")
    /\ last_message_time' = current_time
    /\ command_mutex' = "free"
    /\ rpc' = "while"
    /\ message' = NoMsg
    /\ hist_vel_time' = current_time
    /\ hist_vel_writes' =
          LastTwo(Append(hist_vel_writes, [ lin |-> message.linear_velocity,
                                            ang |-> message.angular_velocity ]))
    /\ current_time' = 0
    /\ UNCHANGED << cmdType, obsVars, now, pose_mutex, pose_matrix_cmd, joint_position_cmd,
                    poseVars, targetVars, msgs, senderVars, callbackVars, mainVars,
                    hist_read, hist_pose >>

\* the pose_matrix branch, lines 171-174, to the end of the lock's scope
ReceiverWritePose ==
    /\ rpc = "cs"
    /\ MsgShape(message) = "pose"
    /\ pose_matrix_cmd' = message.pose_matrix
    /\ command_supressed' = SuppressedByShape("pose")
    /\ last_message_time' = current_time
    /\ command_mutex' = "free"
    /\ rpc' = "while"
    /\ message' = NoMsg
    /\ hist_pose' = message.pose_matrix
    /\ current_time' = 0
    /\ UNCHANGED << cmdType, obsVars, now, pose_mutex, linear_velocity_cmd, angular_velocity_cmd,
                    joint_position_cmd, poseVars, targetVars, msgs, senderVars, callbackVars,
                    mainVars, hist_vel_time, hist_vel_writes, hist_read >>

\* the joint_position branch, lines 179-183, to the end of the lock's scope:
\* clear(), then std::copy through a back_inserter, one push_back per element
ReceiverWriteJoint ==
    /\ rpc = "cs"
    /\ MsgShape(message) = "joint"
    /\ joint_position_cmd' = message.joint_position
    /\ command_supressed' = SuppressedByShape("joint")
    /\ last_message_time' = current_time
    /\ command_mutex' = "free"
    /\ rpc' = "while"
    /\ message' = NoMsg
    /\ current_time' = 0
    /\ UNCHANGED << cmdType, obsVars, now, pose_mutex, linear_velocity_cmd, angular_velocity_cmd,
                    pose_matrix_cmd, poseVars, targetVars, msgs, senderVars,
                    callbackVars, mainVars, histCmdVars >>

----------------------------------------------------------------------------
(* zmq_sender: the thread that publishes the observed state *)

\* a fault of the loop condition: the flag is not looked at
SenderLoop_IgnoresRunning ==
    /\ spc = "while"
    /\ spc' = "lock"
    /\ UNCHANGED << cmdType, obsVars, now, command_mutex, pose_mutex, cmdVars, poseVars,
                    targetVars, receiverVars, copy, pubs_after_stop, callbackVars,
                    mainVars, histCmdVars >>

\* while (running), and when it is true the sleep_for(100 ms) that follows
SenderLoop ==
    /\ spc = "while"
    /\ spc' = IF running THEN "lock" ELSE "done"
    /\ UNCHANGED << cmdType, obsVars, now, command_mutex, pose_mutex, cmdVars, poseVars,
                    targetVars, receiverVars, copy, pubs_after_stop, callbackVars,
                    mainVars, histCmdVars >>

\* the array one iteration copies, by cmdType (lines 200 and 218)
SenderCopy(type, posture, joint) ==
    IF type \in {"xyzrpy_vel", "pose_mat"} THEN posture ELSE joint

\* a fault of lines 200 and 218: the record of the Cartesian modes is made in
\* every mode
SenderRecord_AlwaysPose(type, array) == [ ActualTCPPose |-> array ]

\* the record it publishes (lines 210 and 228)
SenderRecord(type, array) ==
    IF type \in {"xyzrpy_vel", "pose_mat"}
    THEN [ ActualTCPPose |-> array ]
    ELSE [ ActualJointPos |-> array ]

\* lines 203-205 and 221-223: under pose_mutex the shared array is copied
SenderLock ==
    /\ spc = "lock"
    /\ pose_mutex = "free"
    /\ pose_mutex' = "sender"
    /\ copy' = SenderCopy(cmdType, current_posture, current_joint)
    /\ spc' = "cs"
    /\ UNCHANGED << cmdType, obsVars, now, command_mutex, cmdVars, poseVars, targetVars,
                    receiverVars, pubs_after_stop, callbackVars, mainVars,
                    histCmdVars >>

\* the end of the lock's scope, then publisher.send of SenderRecord(cmdType, copy)
SenderSend ==
    /\ spc = "cs"
    /\ copy' = << >>
    /\ pose_mutex' = "free"
    /\ pubs_after_stop' =
          IF running \/ pubs_after_stop = 2 THEN pubs_after_stop ELSE pubs_after_stop + 1
    /\ spc' = "while"
    /\ UNCHANGED << cmdType, now, command_mutex, cmdVars, poseVars, targetVars,
                    receiverVars, callbackVars, mainVars, histCmdVars >>

\* the send, nobody listening
SenderPublish ==
    /\ SenderSend
    /\ UNCHANGED obsVars

\* the send, the record taken down by a subscriber
SenderPublishObserved ==
    /\ SenderSend
    /\ published' = SenderRecord(cmdType, copy)
    /\ UNCHANGED hist_fallback

----------------------------------------------------------------------------
(* callback_cart: the real-time callback of the Cartesian modes *)

\* the scheduler of rtCon invokes the callback: callback_start = now(),
\* robot.posture and robot.jointPos are queried (lines 299-318), and
\* std::lock_guard<std::mutex> lock(pose_mutex) is taken (line 321).  The
\* queries leave their error code in ec; nothing in the callback reads it.
CartQueries ==
    /\ loop_on
    /\ cmdType # "joint_pose"
    /\ cpc = "idle"
    /\ ticks < MaxTicks
    /\ pose_mutex = "free"
    /\ ticks' = ticks + 1
    /\ now' \in SteadyClockNow(now)
    /\ callback_start' = now'
    /\ current_posture_local' = RobotState(ticks').posture
    /\ joint_pose_local' = RobotState(ticks').joint
    /\ pose_mutex' = "callback"
    /\ cpc' = "pose_cs"
    /\ UNCHANGED << cmdType, obsVars, command_mutex, cmdVars, poseVars,
                    targetVars, receiverVars, senderVars, linear_velocity,
                    angular_velocity, mpc, loop_on, power, running, histCmdVars >>

\* a tick whose queries succeed
CartStart ==
    /\ CartQueries
    /\ ec' = FALSE

\* a tick in which a query reports an error
CartStartFault ==
    /\ CartQueries
    /\ ec' = TRUE

\* a fault of lines 320-324: the lock_guard of pose_mutex outlives its block
CartPoseWrite_KeepsLock ==
    /\ cpc = "pose_cs"
    /\ current_posture' = current_posture_local
    /\ current_joint' = joint_pose_local
    /\ cpc' = "cmd_lock"
    /\ UNCHANGED << cmdType, obsVars, now, command_mutex, pose_mutex, cmdVars, targetVars,
                    receiverVars, senderVars, callback_start, current_posture_local,
                    joint_pose_local, linear_velocity, angular_velocity, ticks,
                    mainVars, histCmdVars >>

\* lines 322-324: the observed state is stored and the lock released
CartPoseWrite ==
    /\ cpc = "pose_cs"
    /\ current_posture' = current_posture_local
    /\ current_joint' = joint_pose_local
    /\ pose_mutex' = "free"
    /\ cpc' = "cmd_lock"
    /\ UNCHANGED << cmdType, obsVars, now, command_mutex, cmdVars, targetVars, receiverVars,
                    senderVars, callback_start, current_posture_local, joint_pose_local,
                    linear_velocity, angular_velocity, ticks, mainVars, histCmdVars >>

\* std::lock_guard<std::mutex> lock(command_mutex), lines 329 and 352
CartCmdLock ==
    /\ cpc = "cmd_lock"
    /\ command_mutex = "free"
    /\ command_mutex' = "callback"
    /\ cpc' = "cmd_cs"
    /\ UNCHANGED << cmdType, obsVars, now, pose_mutex, cmdVars, poseVars, targetVars,
                    receiverVars, senderVars, callback_start, current_posture_local,
                    joint_pose_local, linear_velocity, angular_velocity, ticks,
                    mainVars, histCmdVars >>

\* a fault of line 330: the target of the last tick is returned again
PoseMatTarget_KeepsTarget(pose_cmd, target) == target

\* line 330: target_pose_matrix = pose_matrix_cmd
PoseMatTarget(pose_cmd, target) == [ m |-> pose_cmd, rot |-> << >> ]

\* lines 327-333: in pose_mat mode the received matrix is returned as it is
CartPoseMat ==
    /\ cpc = "cmd_cs"
    /\ cmdType = "pose_mat"
    /\ target_pose_matrix' = PoseMatTarget(pose_matrix_cmd, target_pose_matrix)
    /\ command_mutex' = "free"
    /\ cpc' = "idle"
    /\ callback_start' = 0
    /\ current_posture_local' = << >>
    /\ joint_pose_local' = << >>
    /\ UNCHANGED << cmdType, obsVars, now, pose_mutex, cmdVars, poseVars, target_joint_pose,
                    receiverVars, senderVars, linear_velocity, angular_velocity, ticks,
                    mainVars, histCmdVars >>

\* a fault of line 353: the age is taken from the start of the clock, not from
\* last_message_time
StalenessTimeout_SinceStart(start, last, supressed) ==
    /\ DurationCastMs(start) > timeout_duration
    /\ ~supressed

\* lines 353-354: time_since_last_msg > timeout_duration && !command_supressed
StalenessTimeout(start, last, supressed) ==
    /\ DurationCastMs(start - last) > timeout_duration
    /\ ~supressed

\* a fault of lines 384-393: delta_position is taken as given in the frame of
\* the tool and turned by the rotation block of the pose, as the branch of
\* useTCPMove does
Integrate_ToolFrame(pose, lin, ang) ==
    LET delta_position ==
            [ i \in 1..3 |-> lin[i] * max_linear_velocity * dt ]
        transformed_delta_position ==
            [ i \in 1..3 |-> pose.m[(i - 1) * 4 + 1] * delta_position[1]
                            + pose.m[(i - 1) * 4 + 2] * delta_position[2]
                            + pose.m[(i - 1) * 4 + 3] * delta_position[3] ]
        delta_rotation_vector ==
            << ang[1] * max_angular_velocity * dt,
               ang[2] * max_angular_velocity * dt,
               ang[3] * max_angular_velocity * dt >>
    IN  [ m   |-> [ pose.m EXCEPT ![4]  = @ + transformed_delta_position[1],
                                  ![8]  = @ + transformed_delta_position[2],
                                  ![12] = @ + transformed_delta_position[3] ],
          rot |-> RotationProduct(DeltaRotation(delta_rotation_vector), pose.rot) ]

\* lines 372-467 with useTCPMove = false: the velocities are scaled, the position
\* is advanced by linear_velocity * dt and the rotation block is multiplied from
\* the left by the rotation of angular_velocity * dt
Integrate(pose, lin, ang) ==
    LET delta_position ==
            [ i \in 1..3 |-> lin[i] * max_linear_velocity * dt ]
        delta_rotation_vector ==
            << ang[1] * max_angular_velocity * dt,
               ang[2] * max_angular_velocity * dt,
               ang[3] * max_angular_velocity * dt >>
    IN  [ m   |-> [ pose.m EXCEPT ![4]  = @ + delta_position[1],
                                  ![8]  = @ + delta_position[2],
                                  ![12] = @ + delta_position[3] ],
          rot |-> RotationProduct(DeltaRotation(delta_rotation_vector), pose.rot) ]

\* lines 336-338: the pose the integration starts from
StartPose(target, posture) ==
    IF useDesiredPose THEN target
    ELSE [ m |-> postureToTransArray(posture), rot |-> << >> ]

\* lines 351-364: under the lock the timeout is applied and the velocities are
\* copied; the lock is released at the end of the block
CartRead ==
    /\ cpc = "cmd_cs"
    /\ cmdType = "xyzrpy_vel"
    /\ LET timeout == StalenessTimeout(callback_start, last_message_time,
                                       command_supressed)
       IN  /\ linear_velocity_cmd' = IF timeout THEN Zero3 ELSE linear_velocity_cmd
           /\ angular_velocity_cmd' = IF timeout THEN Zero3 ELSE angular_velocity_cmd
           /\ command_supressed' = IF timeout THEN TRUE ELSE command_supressed
    /\ linear_velocity' = linear_velocity_cmd'
    /\ angular_velocity' = angular_velocity_cmd'
    /\ command_mutex' = "free"
    /\ hist_read' = hist_vel_writes
    /\ hist_vel_writes' = << >>
    /\ cpc' = "integrate"
    /\ UNCHANGED << cmdType, now, pose_mutex, pose_matrix_cmd, joint_position_cmd,
                    last_message_time, poseVars, targetVars, receiverVars, senderVars,
                    callback_start, current_posture_local, joint_pose_local, ticks,
                    mainVars, hist_vel_time, hist_pose >>

\* the read of the command, nobody watching std::cerr
CartReadCmd ==
    /\ CartRead
    /\ UNCHANGED obsVars

\* the read of the command, the warning of line 359 taken down
CartReadCmdObserved ==
    /\ CartRead
    /\ hist_fallback' =
          ( \/ hist_fallback
            \/ StalenessTimeout(callback_start, last_message_time, command_supressed) )
    /\ UNCHANGED published

\* lines 336-347 and 366-487: the target is integrated and returned
CartIntegrate ==
    /\ cpc = "integrate"
    /\ target_pose_matrix' =
          Integrate(StartPose(target_pose_matrix, current_posture_local),
                    linear_velocity, angular_velocity)
    /\ cpc' = "idle"
    /\ callback_start' = 0
    /\ current_posture_local' = << >>
    /\ joint_pose_local' = << >>
    /\ linear_velocity' = Zero3
    /\ angular_velocity' = Zero3
    /\ hist_read' = << >>
    /\ UNCHANGED << cmdType, obsVars, now, command_mutex, pose_mutex, cmdVars, poseVars,
                    target_joint_pose, receiverVars, senderVars, ticks, mainVars,
                    hist_vel_time, hist_vel_writes, hist_pose >>

----------------------------------------------------------------------------
(* callback_joint: the real-time callback of the joint mode *)

\* lines 273-287: robot.posture and robot.jointPos are queried and, in a block
\* that takes no lock, stored in current_posture and current_joint.  The
\* queries leave their error code in ec; nothing in the callback reads it.
JointQueries ==
    /\ loop_on
    /\ cmdType = "joint_pose"
    /\ cpc = "idle"
    /\ ticks < MaxTicks
    /\ ticks' = ticks + 1
    /\ current_posture' = RobotState(ticks').posture
    /\ current_joint' = RobotState(ticks').joint
    /\ cpc' = "read_cmd"
    /\ UNCHANGED << cmdType, obsVars, now, command_mutex, pose_mutex, cmdVars,
                    targetVars, receiverVars, senderVars, callback_start,
                    current_posture_local, joint_pose_local,
                    linear_velocity, angular_velocity, mpc, loop_on, power, running,
                    histCmdVars >>

\* a tick whose queries succeed
JointStart ==
    /\ JointQueries
    /\ ec' = FALSE

\* a tick in which a query reports an error
JointStartFault ==
    /\ JointQueries
    /\ ec' = TRUE

\* what the copy of line 290, which takes no lock, can read: joint_position_cmd,
\* or, while the receiver is between clear() and the last push_back of lines
\* 179-180, the elements pushed so far
UnlockedJointRead ==
    IF rpc = "cs" /\ MsgShape(message) = "joint"
    THEN { joint_position_cmd }
         \cup { SubSeq(message.joint_position, 1, k) : k \in 0..NumJoints }
    ELSE { joint_position_cmd }

\* lines 289-294: target_joint_pose = joint_position_cmd is returned
JointReadCmd ==
    /\ cpc = "read_cmd"
    /\ target_joint_pose' \in UnlockedJointRead
    /\ cpc' = "idle"
    /\ UNCHANGED << cmdType, obsVars, now, command_mutex, pose_mutex, cmdVars, poseVars,
                    target_pose_matrix, receiverVars, senderVars, callback_start,
                    current_posture_local, joint_pose_local, linear_velocity, angular_velocity, ticks, mainVars, histCmdVars >>

----------------------------------------------------------------------------
(* main: starting and stopping *)

\* lines 52-88: the network tolerance, the operate mode, the motion control
\* mode and the power state are set, then the end-effector frame, the filter
\* frequency and the collision behaviour.  Each call leaves its error code in
\* ec and main goes on to line 91.
ConfigCalls ==
    /\ mpc = "config"
    /\ mpc' = "moveJ"
    /\ UNCHANGED << cmdType, obsVars, now, command_mutex, pose_mutex, cmdVars, poseVars,
                    targetVars, receiverVars, senderVars, callbackVars, loop_on, power,
                    running, histCmdVars >>

\* the configuration succeeds
MainConfig ==
    /\ ConfigCalls
    /\ ec' = FALSE

\* the last configuration call reports an error
MainConfigFault ==
    /\ ConfigCalls
    /\ ec' = TRUE

\* lines 91-96: rtCon->MoveJ(0.3, robot.jointPos(ec), initial_joint_positions);
\* the if (!ec) that follows guards one line of output only
MainMoveJ ==
    /\ mpc = "moveJ"
    /\ ec' = FALSE
    /\ mpc' = "startMove"
    /\ UNCHANGED << cmdType, obsVars, now, command_mutex, pose_mutex, cmdVars, poseVars,
                    targetVars, receiverVars, senderVars, callbackVars, loop_on, power,
                    running, histCmdVars >>

\* lines 98-110: rtCon->startMove of the mode
MainStartMove ==
    /\ mpc = "startMove"
    /\ mpc' = "spawn"
    /\ UNCHANGED << cmdType, obsVars, now, command_mutex, pose_mutex, cmdVars, poseVars,
                    targetVars, receiverVars, senderVars, callbackVars, loop_on, power,
                    running, ec, histCmdVars >>

\* lines 256-269: both threads are started; target_pose_matrix becomes tcp_in_base
MainSpawn ==
    /\ mpc = "spawn"
    /\ spc' = "while"
    /\ rpc' = "while"
    /\ target_pose_matrix' =
          [ target_pose_matrix EXCEPT !.m = MatMul4(target_pose_matrix.m, tcp_frame) ]
    /\ mpc' = "startLoop"
    /\ UNCHANGED << cmdType, obsVars, now, command_mutex, pose_mutex, cmdVars, poseVars,
                    target_joint_pose, message, current_time, msgs, copy, pubs_after_stop,
                    callbackVars, loop_on, power, running, ec, histCmdVars >>

\* lines 490-495: setControlLoop and startLoop(false)
MainStartLoop ==
    /\ mpc = "startLoop"
    /\ loop_on' = TRUE
    /\ mpc' = "wait"
    /\ UNCHANGED << cmdType, obsVars, now, command_mutex, pose_mutex, cmdVars, poseVars,
                    targetVars, receiverVars, senderVars, callbackVars, power, running,
                    ec, histCmdVars >>

\* lines 498-500: std::cin.get() returns when the operator presses enter, and
\* rtCon->stopLoop() returns once no callback is being executed
MainStopLoop ==
    /\ mpc = "wait"
    /\ cpc = "idle"
    /\ loop_on' = FALSE
    /\ mpc' = "stop_threads"
    /\ UNCHANGED << cmdType, obsVars, now, command_mutex, pose_mutex, cmdVars, poseVars,
                    targetVars, receiverVars, senderVars, callbackVars, power, running,
                    ec, histCmdVars >>

\* line 503: running = false
MainClearRunning ==
    /\ mpc = "stop_threads"
    /\ running' = FALSE
    /\ mpc' = "join_receiver"
    /\ UNCHANGED << cmdType, obsVars, now, command_mutex, pose_mutex, cmdVars, poseVars,
                    targetVars, receiverVars, senderVars, callbackVars, loop_on, power,
                    ec, histCmdVars >>

\* line 504: zmq_receiver_thread.join()
MainJoinReceiver ==
    /\ mpc = "join_receiver"
    /\ rpc = "done"
    /\ mpc' = "join_sender"
    /\ UNCHANGED << cmdType, obsVars, now, command_mutex, pose_mutex, cmdVars, poseVars,
                    targetVars, receiverVars, senderVars, callbackVars, loop_on, power,
                    running, ec, histCmdVars >>

\* a fault of line 505: main does not wait for zmq_sender to end
MainJoinSender_NoWait ==
    /\ mpc = "join_sender"
    /\ mpc' = "power_off"
    /\ UNCHANGED << cmdType, obsVars, now, command_mutex, pose_mutex, cmdVars, poseVars,
                    targetVars, receiverVars, senderVars, callbackVars, loop_on, power,
                    running, ec, histCmdVars >>

\* line 505: zmq_sender_thread.join()
MainJoinSender ==
    /\ mpc = "join_sender"
    /\ spc = "done"
    /\ mpc' = "power_off"
    /\ UNCHANGED << cmdType, obsVars, now, command_mutex, pose_mutex, cmdVars, poseVars,
                    targetVars, receiverVars, senderVars, callbackVars, loop_on, power,
                    running, ec, histCmdVars >>

\* line 507: robot.setPowerState(false, ec)
MainPowerOff ==
    /\ mpc = "power_off"
    /\ power' = FALSE
    /\ ec' = FALSE
    /\ mpc' = "exit"
    /\ UNCHANGED << cmdType, obsVars, now, command_mutex, pose_mutex, cmdVars, poseVars,
                    targetVars, receiverVars, senderVars, callbackVars, loop_on, running,
                    histCmdVars >>

----------------------------------------------------------------------------
(* Specifications *)

Receiver ==
    \/ ReceiverLoop
    \/ ReceiverLock
    \/ ReceiverWriteVelocity
    \/ ReceiverWritePose
    \/ ReceiverWriteJoint

\* a message arrives on the subscriber socket
Arrival ==
    \/ \E m \in Messages(cmdType) : ReceiverRecv(m)
    \/ \E m \in Messages(cmdType) : ReceiverDiscard(m)

Sender ==
    \/ SenderLoop
    \/ SenderLock
    \/ SenderPublish

Callback ==
    \/ CartStart
    \/ CartPoseWrite
    \/ CartCmdLock
    \/ CartPoseMat
    \/ CartReadCmd
    \/ CartIntegrate
    \/ JointStart
    \/ JointReadCmd

Main ==
    \/ MainConfig
    \/ MainMoveJ
    \/ MainStartMove
    \/ MainSpawn
    \/ MainStartLoop
    \/ MainClearRunning
    \/ MainJoinReceiver
    \/ MainJoinSender
    \/ MainPowerOff

Next ==
    \/ Receiver
    \/ Arrival
    \/ Sender
    \/ Callback
    \/ Main
    \/ MainStopLoop

Spec == Init /\ [][Next]_vars

\* callback_cart in xyzrpy_vel mode taken alone: lines 299-364 of a tick whose
\* copy of the command yields lin and ang
TickReads(lin, ang) ==
    /\ loop_on
    /\ cmdType = "xyzrpy_vel"
    /\ cpc = "idle"
    /\ ticks < MaxSteps
    /\ ticks' = ticks + 1
    /\ current_posture_local' = RobotState(ticks').posture
    /\ joint_pose_local' = RobotState(ticks').joint
    /\ linear_velocity' = lin
    /\ angular_velocity' = ang
    /\ cpc' = "integrate"
    /\ UNCHANGED << cmdType, obsVars, now, command_mutex, pose_mutex, cmdVars, poseVars,
                    targetVars, receiverVars, senderVars, callback_start, mainVars,
                    histCmdVars >>

\* the state in which main waits at line 498 in xyzrpy_vel mode, the target
\* seeded from a posture of the flange (lines 245-269)
IntegrateInit ==
    /\ cmdType = "xyzrpy_vel"
    /\ now = 0
    /\ running = TRUE
    /\ command_mutex = "free"
    /\ linear_velocity_cmd = Zero3
    /\ angular_velocity_cmd = Zero3
    /\ command_supressed = FALSE
    /\ last_message_time = 0
    /\ pose_mutex = "free"
    /\ current_posture \in StartPostures
    /\ current_joint = RobotState(0).joint
    /\ pose_matrix_cmd = postureToTransArray(current_posture)
    /\ target_pose_matrix =
          [ m |-> MatMul4(postureToTransArray(current_posture), tcp_frame),
            rot |-> << >> ]
    /\ target_joint_pose = current_joint
    /\ joint_position_cmd = target_joint_pose
    /\ hist_pose = pose_matrix_cmd
    /\ rpc = "while"
    /\ message = NoMsg
    /\ current_time = 0
    /\ spc = "while"
    /\ copy = << >>
    /\ cpc = "idle"
    /\ callback_start = 0
    /\ current_posture_local = << >>
    /\ joint_pose_local = << >>
    /\ linear_velocity = Zero3
    /\ angular_velocity = Zero3
    /\ ticks = 0
    /\ msgs = 0
    /\ mpc = "wait"
    /\ loop_on = TRUE
    /\ power = TRUE
    /\ ec = FALSE
    /\ hist_vel_time = 0
    /\ hist_vel_writes = << >>
    /\ hist_read = << >>
    /\ pubs_after_stop = 0
    /\ published = NoMsg
    /\ hist_fallback = FALSE

IntegrateNext ==
    \/ \E lin \in TickLinear, ang \in TickAngular : TickReads(lin, ang)
    \/ CartIntegrate

\* the integration of callback_cart applied tick after tick
IntegrateSpec == IntegrateInit /\ [][IntegrateNext]_vars

\* the program with a subscriber on the socket of zmq_sender, and nobody
\* sending commands: zmq_receiver waits in recv, the command changes only by
\* the timeout of callback_cart
PublishNext ==
    \/ ReceiverLoop
    \/ SenderLoop
    \/ SenderLock
    \/ SenderPublishObserved
    \/ Callback
    \/ Main
    \/ MainStopLoop

PublishSpec == Init /\ [][PublishNext]_vars

\* the program built for xyzrpy_vel, with somebody reading its std::cerr
RecoveryInit == Init /\ cmdType = "xyzrpy_vel"

RecoveryNext ==
    \/ Receiver
    \/ Arrival
    \/ Sender
    \/ CartStart
    \/ CartPoseWrite
    \/ CartCmdLock
    \/ CartReadCmdObserved
    \/ CartIntegrate
    \/ Main
    \/ MainStopLoop

RecoverySpec == RecoveryInit /\ [][RecoveryNext]_vars

\* what the robot and the network can do to the program besides: a payload that
\* makes the receiver throw, and SDK calls that report an error code
Fault ==
    \/ \E m \in MalformedMsgs : ReceiverThrow(m)
    \/ CartStartFault
    \/ JointStartFault
    \/ MainConfigFault

FaultNext == Next \/ Fault

\* the program with these faults
FaultSpec == Init /\ [][FaultNext]_vars

\* the threads of the program are scheduled fairly; the arrival of messages
\* and the operator's keystroke are not the program's
LiveSpec ==
    /\ Init /\ [][Next]_vars
    /\ WF_vars(Receiver)
    /\ WF_vars(Sender)
    /\ WF_vars(Callback)
    /\ WF_vars(Main)

----------------------------------------------------------------------------
(* Steps of the callback and of the receiver, as the properties name them *)

\* callback_cart reads the shared command (lines 351-364)
CartReads == cpc = "cmd_cs" /\ cpc' = "integrate"

\* callback_cart returns the integrated target (line 487)
CartReturns == cpc = "integrate" /\ cpc' = "idle"

\* callback_cart returns in pose_mat mode (line 332)
PoseMatReturns == cpc = "cmd_cs" /\ cpc' = "idle"

\* any step of callback_cart or callback_joint
CallbackStep == cpc' # cpc

\* zmq_receiver completes the write of a recognized message (lines 161-183)
ReceiverWrites == rpc = "cs" /\ rpc' = "while"

\* any step of zmq_sender (lines 197-237)
SenderStep == spc \in {"while", "lock", "cs"} /\ spc' # spc

----------------------------------------------------------------------------
(* Properties *)

\* C1: in xyzrpy_vel mode, a tick that reads the command while it is not
\* suppressed and more than 100 ms (more than Period clock ticks) after
\* last_message_time uses zero linear and angular velocity, and a tick that
\* uses zero velocity returns the target of the previous tick.
C1_StalenessFallback ==
    [][ /\ ( /\ CartReads
             /\ ~command_supressed
             /\ callback_start - last_message_time > Period )
           => ( linear_velocity' = Zero3 /\ angular_velocity' = Zero3 )
        /\ ( CartReturns /\ linear_velocity = Zero3 /\ angular_velocity = Zero3 )
           => ( target_pose_matrix' = target_pose_matrix ) ]_vars

\* C2: in xyzrpy_vel mode, a tick that starts more than 100 whole milliseconds
\* after the last velocity message was received uses zero velocity, whatever
\* pose_matrix or joint_position messages were received in between.
C2_OnlyVelocityRefreshes ==
    [][ ( /\ CartReads
          /\ DurationCastMs(callback_start - hist_vel_time) > timeout_duration )
        => ( linear_velocity' = Zero3 /\ angular_velocity' = Zero3 ) ]_vars

\* C3: in pose_mat mode every tick returns exactly the matrix of the last
\* completed pose_matrix write (the seed of pose_matrix_cmd if there is none),
\* whatever the age of the command and the other fields of the command.
C3_PoseMatVerbatim ==
    [][ ( cmdType = "pose_mat" /\ PoseMatReturns )
        => ( target_pose_matrix' = [ m |-> hist_pose, rot |-> << >> ] ) ]_vars

\* C3, reached: a tick of pose_mat mode has returned the matrix of a received
\* pose_matrix message although a non-zero velocity is stored and the command is
\* older than the timeout and not suppressed
C3_Witness ==
    /\ cmdType = "pose_mat"
    /\ cpc = "idle"
    /\ ticks > 0
    /\ hist_pose \in { msg.pose_matrix : msg \in PoseMsgs }
    /\ target_pose_matrix.m = hist_pose
    /\ rpc = "while"
    /\ linear_velocity_cmd # Zero3
    /\ StalenessTimeout(now, last_message_time, command_supressed)

\* C4: when the receiver has completed two velocity writes since the callback's
\* last read and the timeout does not apply, the callback's read yields the
\* linear and the angular velocity of the second write.
C4_LastWriteWins ==
    [][ ( /\ CartReads
          /\ Len(hist_vel_writes) = 2
          /\ ~StalenessTimeout(callback_start, last_message_time, command_supressed) )
        => ( /\ linear_velocity' = hist_vel_writes[2].lin
             /\ angular_velocity' = hist_vel_writes[2].ang ) ]_vars

\* C4, reached: the second tick has read the command after two velocity writes
\* that differ in both velocities, and holds the velocities of the second
C4_Witness ==
    /\ cpc = "integrate"
    /\ ticks = 2
    /\ Len(hist_read) = 2
    /\ hist_read[1].lin # hist_read[2].lin
    /\ hist_read[1].ang # hist_read[2].ang
    /\ linear_velocity = hist_read[2].lin
    /\ angular_velocity = hist_read[2].ang

\* C5: in joint_pose mode the vector the callback returns always has all 7
\* elements and is the seed or the joint_position of one received message.
C5_JointSnapshot ==
    cmdType = "joint_pose" =>
        /\ Len(target_joint_pose) = NumJoints
        /\ target_joint_pose \in
              { RobotState(0).joint } \cup { msg.joint_position : msg \in JointMsgs }

\* C6: no step of the callback changes a field of the shared command
\* (the velocities, pose_matrix_cmd, joint_position_cmd, command_supressed,
\* last_message_time).
C6_CallbackNeverWrites ==
    [][ CallbackStep => UNCHANGED cmdVars ]_vars

\* C7: a completed write of a recognized message sets last_message_time to the
\* time the message was received, and command_supressed to false for a velocity
\* message and to true for a pose_matrix or a joint_position message.
C7_SuppressedByShape ==
    [][ ReceiverWrites
        => ( /\ last_message_time' = current_time
             /\ command_supressed' = (MsgShape(message) # "velocity") ) ]_vars

\* C8: once running is false, zmq_receiver eventually leaves its loop, whether
\* or not another message arrives.
C8_ReceiverTerminates ==
    (running = FALSE) ~> (rpc = "done")

\* C9: zmq_sender publishes at most once while running is false, and once
\* running is false it eventually leaves its loop.
C9_SenderTerminates ==
    /\ [](pubs_after_stop <= 1)
    /\ (running = FALSE) ~> (spc = "done")

\* C9, reached: zmq_sender has left its loop after one publish made while
\* running was false
C9_Witness ==
    /\ running = FALSE
    /\ pubs_after_stop = 1
    /\ spc = "done"

\* C10: a message of none of the three shapes leaves every field of the shared
\* command unchanged, and the receiver goes on to the next iteration of its
\* loop, where it receives again while running is true.
C10_UnknownDiscarded ==
    [][ /\ ( rpc = "recv" /\ rpc' \notin {"recv", "lock"} )
           => ( UNCHANGED cmdVars /\ rpc' = "discarded" )
        /\ ( rpc = "discarded" /\ rpc' # rpc )
           => ( rpc' = IF running THEN "recv" ELSE "done" ) ]_vars

\* C10, reached: a message of unknown shape has been dropped after a velocity
\* message was written
C10_Witness ==
    /\ rpc = "discarded"
    /\ msgs > 0
    /\ last_message_time > 0
    /\ linear_velocity_cmd # Zero3

\* C11: a payload that fails to decode, or whose recognized key holds an array
\* of the wrong length, is dropped: the step of zmq_receiver that takes it
\* leaves every field of the shared command unchanged, the receiver goes back
\* to its loop, and main goes on as before.
C11_MalformedDiscarded ==
    [][ ( rpc = "recv" /\ rpc' # rpc /\ Throws(message') )
        => ( /\ UNCHANGED cmdVars
             /\ rpc' = "discarded"
             /\ mpc' = mpc ) ]_vars

\* C12: a tick in which robot.posture or robot.jointPos reported an error does
\* not return a target: no invocation of callback_cart or callback_joint
\* returns while ec holds the error of its queries.
C12_QueryErrorFatal ==
    [][ ( cpc \notin {"idle", "terminate"} /\ cpc' = "idle" ) => ~ec ]_vars


\* C13: when the configuration of lines 52-88 leaves an error in ec, main does
\* not go on to the initial MoveJ (nor, after it, to startMove and the
\* real-time loop).
C13_ConfigErrorAborts ==
    [][ ( mpc = "config" /\ mpc' # mpc /\ ec' ) => ( mpc' # "moveJ" ) ]_vars


\* C14: in xyzrpy_vel mode with the velocity taken in the base frame, a tick
\* that integrates a unit linear velocity along one axis and zero angular
\* velocity adds max_linear_velocity * dt to the translation along that axis
\* and changes no other element of the target and nothing of its rotation; N
\* such ticks in a row add N times as much, from whatever rotation they start.
C14_UnitVelocityIntegration ==
    [][ \A i \in 1..3 :
          ( CartReturns /\ linear_velocity = UnitAxis(i) /\ angular_velocity = Zero3 )
          => ( /\ target_pose_matrix'.m[4 * i] =
                     target_pose_matrix.m[4 * i] + 1000 * max_linear_velocity * dt
               /\ \A n \in (1..16) \ {4 * i} :
                     target_pose_matrix'.m[n] = target_pose_matrix.m[n]
               /\ target_pose_matrix'.rot = target_pose_matrix.rot ) ]_vars

\* C14, reached: three ticks in a row have integrated the unit velocity along
\* y from a target whose rotation is not the identity, and the target is the
\* seed moved by 3 * max_linear_velocity * dt along y
C14_Witness ==
    /\ ticks = 3
    /\ cpc = "idle"
    /\ current_posture[5] # 0
    /\ target_pose_matrix =
          [ m |-> [ MatMul4(postureToTransArray(current_posture), tcp_frame)
                      EXCEPT ![8] = @ + 3 * 1000 * max_linear_velocity * dt ],
            rot |-> << >> ]


\* C15: in every mode, each step that writes the observed state
\* (current_posture, current_joint) is taken by the callback while it holds
\* pose_mutex, so that the sender, which copies under pose_mutex, never reads a
\* half-written value.
C15_ObservedPoseLocked ==
    [][ ( poseVars' # poseVars ) => ( pose_mutex = "callback" ) ]_vars


\* C16: a tick of xyzrpy_vel mode that reads a command which is not suppressed
\* applies the fallback (command_supressed becomes true) exactly when the age
\* of the command, callback_start - last_message_time taken at the resolution
\* of the clock, exceeds 100 ms: not at 100 ms, but at 100.5 ms.
C16_ThresholdExact ==
    [][ ( CartReads /\ ~command_supressed )
        => ( command_supressed' <=> ( callback_start - last_message_time > Period ) ) ]_vars


\* C17: in xyzrpy_vel and in pose_mat mode, a tick that returns before any
\* message has been received returns the seeded target: the posture main
\* queried at the start, as a transform, multiplied by tcp_frame.
C17_NoInitialJump ==
    [][ ( /\ cmdType \in {"xyzrpy_vel", "pose_mat"}
          /\ CartReturns \/ PoseMatReturns
          /\ msgs = 0 )
        => ( target_pose_matrix' =
                [ m |-> MatMul4(postureToTransArray(RobotState(0).posture), tcp_frame),
                  rot |-> << >> ] ) ]_vars


\* C18: main stops the real-time loop before it clears running, and the robot
\* is powered off only when the loop is stopped, no callback is executing and
\* both zmq_receiver and zmq_sender have ended and been joined.
C18_ShutdownOrder ==
    /\ ~running => ( ~loop_on /\ cpc = "idle" )
    /\ mpc \in {"join_sender", "power_off", "exit"} => rpc = "done"
    /\ mpc \in {"power_off", "exit"} => spc = "done"
    /\ ~power => ( /\ mpc = "exit"
                   /\ ~running
                   /\ ~loop_on
                   /\ cpc = "idle"
                   /\ rpc = "done"
                   /\ spc = "done" )

\* C18, reached: the robot has been powered off after ticks were executed and
\* messages received
C18_Witness ==
    /\ ~power
    /\ mpc = "exit"
    /\ ticks > 0
    /\ msgs > 0

\* C19: no thread holds command_mutex and pose_mutex at the same time.
C19_NeverBothMutexes ==
    \A thread \in {"receiver", "sender", "callback"} :
        ~( command_mutex = thread /\ pose_mutex = thread )

\* C19, reached: both mutexes are held at once, by different threads: the
\* callback is in the critical section of command_mutex while zmq_sender is in
\* that of pose_mutex
C19_Witness ==
    /\ command_mutex = "callback"
    /\ cpc = "cmd_cs"
    /\ pose_mutex = "sender"
    /\ spc = "cs"


\* C20: a tick of xyzrpy_vel mode whose rotation vector angular_velocity *
\* max_angular_velocity * dt has a magnitude of at most 1e-6 rad leaves the
\* rotation of the target as it is; any other tick multiplies the rotation of
\* that vector onto the rotation of the target from the left (it becomes the
\* first letter of the word), not from the right.
C20_LeftRotationUpdate ==
    [][ CartReturns =>
          LET v == [ i \in 1..3 |-> angular_velocity[i] * max_angular_velocity * dt ]
              small == /\ \A i \in 1..3 : Abs(v[i]) <= AngleEps
                       /\ v[1] * v[1] + v[2] * v[2] + v[3] * v[3] <= AngleEps * AngleEps
          IN  /\ \A n \in {1, 2, 3, 5, 6, 7, 9, 10, 11} :
                    target_pose_matrix'.m[n] = target_pose_matrix.m[n]
              /\ target_pose_matrix'.rot =
                    IF small THEN target_pose_matrix.rot
                    ELSE << << v[1], v[2], v[3] >> >> \o target_pose_matrix.rot ]_vars

\* C20, reached: of three ticks one has turned the target about z, a later one
\* has put a turn about y in front of the turn about z, and one, whose
\* rotation vector was not above the threshold, has left the rotation as it was
C20_Witness ==
    /\ ticks = 3
    /\ cpc = "idle"
    /\ target_pose_matrix.rot = << << 0, 160000, 0 >>, << 0, 0, 160000 >> >>
    /\ angular_velocity = Zero3


C22_RecoversAfterFallback ==
    [][ ( /\ CartReads
          /\ hist_fallback
          /\ Len(hist_vel_writes) >= 1
          /\ callback_start - hist_vel_time <= Period )
        => ( /\ linear_velocity' = hist_vel_writes[Len(hist_vel_writes)].lin
             /\ angular_velocity' = hist_vel_writes[Len(hist_vel_writes)].ang ) ]_vars

\* C22, reached: the first tick has applied the timeout, a velocity message has
\* been written since, and the second tick, started within 100 ms of that
\* message, holds its non-zero velocity
C22_Witness ==
    /\ cpc = "integrate"
    /\ ticks = 2
    /\ hist_fallback
    /\ Len(hist_read) = 1
    /\ callback_start - hist_vel_time <= Period
    /\ linear_velocity = hist_read[1].lin
    /\ angular_velocity = hist_read[1].ang
    /\ linear_velocity # Zero3
    /\ ~command_supressed

=============================================================================
